---- MODULE Spec2Model ----
(***************************************************************************)
(* Model of the Chatterbox TTS server core:                                *)
(*   engine.py            load_model(), synthesize(), set_seed(), probes   *)
(*   llm_preprocessor.py  preprocess_speech_input()                        *)
(* engine.py keeps its state in module globals and takes no lock, so each  *)
(* caller thread is a process whose steps are the reads and writes of the  *)
(* globals and the blocking library calls, in source order.                *)
(***************************************************************************)
EXTENDS Integers, Sequences, FiniteSets, TLC

\* ------------------------------------------------------------------ bounds
NumThreads == 2      \* caller threads of the engine
MaxPolls == 3        \* connection attempts that fit in SERVER_STARTUP_TIMEOUT
MaxCalls == 3        \* engine calls started in one behaviour
MaxSeed == 2         \* seeds are drawn from 0..MaxSeed
RngMod == 5          \* an RNG subsystem's state is a residue mod RngMod

Threads == 1..NumThreads
Seeds == 0..MaxSeed

\* ------------------------------------------------------------- value sets
DeviceSettings == {"auto", "cuda", "mps", "cpu", "gpu0"}
Languages == {"None", "en", "hi"}
Texts == {"hello", "speak softly"}
RngSubsystems == {"torch", "cuda", "mps", "random", "numpy"}

\* The value None of chatterbox_model, written as a handle with id 0.
NoModel == [id |-> 0, device |-> "None", multilingual |-> FALSE, map_location |-> "None"]
\* The tensor None of a failed synthesis.
NoRng == [s \in RngSubsystems |-> -1]
NoCall == [model |-> 0, text |-> "None", language_id |-> "None", rng |-> NoRng]
NoWav == NoCall
NoSr == "None"
S3GEN_SR == "S3GEN_SR"

VARIABLES
    \* engine.py module globals
    chatterbox_model, MODEL_LOADED, model_device, use_multilingual_model,
    \* process-wide library state
    torch_load,      \* torch.load: << >> is the original, Append(f, d) wraps f with map_location d
    rng,             \* state of every RNG subsystem
    \* environment, fixed for a behaviour
    MULTILINGUAL_AVAILABLE, cuda_available, mps_available, config,
    \* caller threads
    pc, frame, ret,
    \* bookkeeping
    calls,           \* engine calls started so far
    last,            \* the call that returned last
    success,         \* the globals when load_model() first returned True
    nextId,          \* identity of the next object from_pretrained builds
    serial,          \* TRUE: callers start a call only when no call is in flight
    \* llm_preprocessor.py: the settings, and one preprocess_speech_input() call
    llm_enabled, llm_fallback_on_error,
    p_pc, p_frame, p_ret,
    \* a caller's notebook: the seed and waveform of a synthesize() it kept
    kept,
    \* start.py: main() and the server process it starts
    m_pc,            \* position of main(), inside cleanup_server() included
    server_process,  \* the global _server_process: "None" or the Popen object
    server,          \* the server process: "none", "starting", "listening",
                     \* "terminating", "exited"
    polls,           \* connection attempts wait_for_server() has made
    caller,          \* the call site cleanup_server() returns to
    cleanups,        \* cleanup_server() invocations
    signals,         \* what cleanup_server() has sent to the process
    exit_code        \* the launcher's exit status

globals == <<chatterbox_model, MODEL_LOADED, model_device, use_multilingual_model>>
environment == <<MULTILINGUAL_AVAILABLE, cuda_available, mps_available, config, serial>>
vars == <<chatterbox_model, MODEL_LOADED, model_device, use_multilingual_model,
          torch_load, rng, MULTILINGUAL_AVAILABLE, cuda_available, mps_available,
          config, pc, frame, ret, calls, last, success, nextId, serial,
          llm_enabled, llm_fallback_on_error, p_pc, p_frame, p_ret, kept,
          m_pc, server_process, server, polls, caller, cleanups, signals, exit_code>>
launcher == <<m_pc, server_process, server, polls, caller, cleanups, signals, exit_code>>
preprocessor == <<llm_enabled, llm_fallback_on_error, p_pc, p_frame, p_ret>>

\* What is remembered of the call that returned last.
NoLast == [op |-> "none", ok |-> FALSE, ran |-> FALSE]

\* A thread's locals outside any call; seeded is what the call's set_seed() has
\* passed to each RNG subsystem so far (-1: nothing).
NoFrame == [op |-> "none", seed |-> 0, language_id |-> "None", text |-> "None",
            device_setting |-> "None", resolved_device_str |-> "None",
            original_torch_load |-> << >>, built |-> NoModel, raised |-> FALSE,
            probes |-> << >>, instantiations |-> 0, generations |-> 0,
            warned |-> FALSE, call |-> NoCall, wav_tensor |-> NoWav, before |-> NoLast,
            seeded |-> NoRng]

\* A call's return value and what the call did (ran: it went past its first
\* test; seed: the seed argument of a synthesize() call; built: the object its from_pretrained returned); before is the call that had returned last when this
\* one was made, loaded and model are MODEL_LOADED and chatterbox_model on return.
NoRet == [op |-> "none", ok |-> FALSE, wav |-> NoWav, sr |-> NoSr, ran |-> FALSE, seed |-> 0,
          probes |-> << >>, instantiations |-> 0, built |-> 0, generations |-> 0,
          warned |-> FALSE, before |-> NoLast, loaded |-> FALSE, model |-> 0]

\* ------------------------------------------------- llm_preprocessor.py

\* The Field bounds of TTSParamsExtraction; the float bounds in hundredths.
TemperatureGe == 0
TemperatureLe == 150
ExaggerationGe == 25
ExaggerationLe == 200
CfgWeightGe == 20
CfgWeightLe == 100
ChunkSizeGe == 50
ChunkSizeLe == 500

InputTexts == {"speak excitedly: hello world", "hello"}

\* An Optional field is the empty set (None) or the set of its one value.
Optional(values) == {{}} \cup {{v} : v \in values}

\* What the provider puts in a field: each bound, and a value just past each.
Around(ge, le) == {ge - 1, ge, le, le + 1}

\* The JSON objects a provider answers with; json FALSE is a body that is no
\* JSON object of the right types (or no body at all).
Contents ==
    [json : BOOLEAN, text : Optional({"hello world"}),
     temperature : Optional(Around(TemperatureGe, TemperatureLe)),
     exaggeration : Optional(Around(ExaggerationGe, ExaggerationLe)),
     cfg_weight : Optional(Around(CfgWeightGe, CfgWeightLe)),
     split_text : Optional({TRUE}),
     chunk_size : Optional(Around(ChunkSizeGe, ChunkSizeLe)),
     language : Optional({"es"})]

\* A chat completion that raised (timeout, transport or provider error).
Raised == [json |-> FALSE, text |-> {"<raised>"}, temperature |-> {}, exaggeration |-> {},
           cfg_weight |-> {}, split_text |-> {}, chunk_size |-> {}, language |-> {}]

\* class TTSParamsExtraction: its fields
Fields == {"text", "temperature", "exaggeration", "cfg_weight", "split_text",
           "chunk_size", "language"}

\* TTSParamsExtraction(text=input_text): every Optional field at its default None
TTSParamsExtraction(text) ==
    [text |-> {text}, temperature |-> {}, exaggeration |-> {}, cfg_weight |-> {},
     split_text |-> {}, chunk_size |-> {}, language |-> {}]

\* A Field whose ge and le are not enforced.
InBoundsUnenforced(field, ge, le) == \A v \in field : v = v

\* A Field(None, ge=.., le=..) accepts None and the values inside its bounds.
InBounds(field, ge, le) == \A v \in field : ge <= v /\ v <= le

\* TTSParamsExtraction.model_validate_json(content) does not raise
Validates(content) ==
    /\ content.json
    /\ content.text # {}
    /\ InBounds(content.temperature, TemperatureGe, TemperatureLe)
    /\ InBounds(content.exaggeration, ExaggerationGe, ExaggerationLe)
    /\ InBounds(content.cfg_weight, CfgWeightGe, CfgWeightLe)
    /\ InBounds(content.chunk_size, ChunkSizeGe, ChunkSizeLe)

\* A validation that fills a field the answer left out with a default value.
ModelValidateJsonDefaulted(content) ==
    [f \in Fields |-> IF content[f] # {} THEN content[f]
                       ELSE IF f = "split_text" THEN {FALSE}
                       ELSE IF f = "language" THEN {"en"}
                       ELSE IF f = "text" THEN {""}
                       ELSE {0}]

\* TTSParamsExtraction.model_validate_json(content), when it does not raise
ModelValidateJson(content) == [f \in Fields |-> content[f]]

\* No call, no locals, no outcome.
NoExtraction == [f \in Fields |-> {}]
NoPFrame == [input_text |-> "None", fallback_on_error |-> FALSE, settings_read |-> FALSE,
             provider_calls |-> 0]
NoPRet == [outcome |-> "none", result |-> NoExtraction, input_text |-> "None",
           enabled |-> FALSE, fallback_on_error |-> FALSE, settings_read |-> FALSE,
           provider_calls |-> 0, response |-> Raised, answered |-> FALSE]

\* No preprocess_speech_input() call in flight.
InitPreprocessor ==
    /\ p_pc = "idle"
    /\ p_frame = NoPFrame
    /\ p_ret = NoPRet

\* Nothing kept.
NoKept == [seed |-> 0, wav |-> NoWav]

\* start.py before main() runs: _server_process = None
InitLauncher ==
    /\ m_pc = "check_windows"
    /\ server_process = "None"
    /\ server = "none"
    /\ polls = 0
    /\ caller = "none"
    /\ cleanups = 0
    /\ signals = << >>
    /\ exit_code = "None"

\* No load_model() call has returned True yet.
NoSuccess == [model |-> NoModel, device |-> "None", multilingual |-> FALSE]

\* The module globals as engine.py initialises them, no call started.
InitEngine ==
    /\ chatterbox_model = NoModel
    /\ MODEL_LOADED = FALSE
    /\ model_device = "None"
    /\ use_multilingual_model = TRUE
    /\ torch_load = << >>
    /\ MULTILINGUAL_AVAILABLE \in BOOLEAN
    /\ cuda_available \in BOOLEAN
    /\ mps_available \in BOOLEAN
    /\ pc = [t \in Threads |-> "idle"]
    /\ frame = [t \in Threads |-> NoFrame]
    /\ ret = [t \in Threads |-> NoRet]
    /\ calls = 0
    /\ last = NoLast
    /\ success = NoSuccess
    /\ nextId = 1

\* The configuration file left at the defaults load_model() falls back to
\* (device "auto", multilingual on).
DefaultConfig == [device |-> "auto", use_multilingual |-> TRUE, language |-> "en"]

\* Concurrent callers with the default configuration, on every platform that
\* exists: CUDA and MPS builds of torch exclude each other.
Init ==
    /\ InitEngine
    /\ InitLauncher /\ kept = NoKept
    /\ InitPreprocessor /\ llm_enabled = FALSE /\ llm_fallback_on_error = TRUE
    /\ ~(cuda_available /\ mps_available)
    /\ serial = FALSE
    /\ config = DefaultConfig
    /\ rng = [s \in RngSubsystems |-> 0]

\* One call at a time, on every platform, with every configuration and two
\* ambient RNG states.
InitSerial ==
    /\ InitEngine
    /\ InitLauncher /\ kept = NoKept
    /\ InitPreprocessor /\ llm_enabled = FALSE /\ llm_fallback_on_error = TRUE
    /\ serial = TRUE
    /\ config \in [device : DeviceSettings, use_multilingual : BOOLEAN, language : {"en"}]
    /\ rng \in {[s \in RngSubsystems |-> a] : a \in {0, RngMod - 1}}

\* ------------------------------------------------------------ load_model

\* A step of thread t that stays inside its call: new position, new locals.
Goto(t, label, locals) ==
    /\ pc' = [pc EXCEPT ![t] = label]
    /\ frame' = [frame EXCEPT ![t] = locals]
    /\ ret' = ret
    /\ last' = last
    /\ success' = success

\* Thread t returns result, in a step that leaves MODEL_LOADED at loaded (no
\* returning statement writes another global): the caller holds it at "done".
Return(t, result, loaded) ==
    /\ pc' = [pc EXCEPT ![t] = "done"]
    /\ ret' = [ret EXCEPT ![t] = [result EXCEPT !.before = IF frame[t].op = "none" THEN last
                                                             ELSE frame[t].before,
                                                !.loaded = loaded,
                                                !.model = chatterbox_model.id]]
    /\ last' = [op |-> result.op, ok |-> result.ok, ran |-> result.ran]
    /\ success' = IF result.op = "load" /\ result.ok /\ success = NoSuccess
                    THEN [model |-> chatterbox_model, device |-> model_device,
                          multilingual |-> use_multilingual_model]
                    ELSE success
    /\ frame' = [frame EXCEPT ![t] = NoFrame]

\* The caller drops the result and is free for its next call.
Idle(t) ==
    /\ pc[t] = "done"
    /\ pc' = [pc EXCEPT ![t] = "idle"]
    /\ ret' = [ret EXCEPT ![t] = NoRet]
    /\ UNCHANGED <<globals, torch_load, rng, environment, preprocessor, kept, launcher, frame, calls, last, success, nextId>>

\* return <value> from load_model
LoadReturn(t, value, loaded) ==
    Return(t, [NoRet EXCEPT !.op = "load", !.ok = value, !.ran = (frame[t].op = "load"),
                            !.probes = frame[t].probes,
                            !.instantiations = frame[t].instantiations,
                            !.built = frame[t].built.id],
           loaded)

CanStart(t) ==
    /\ pc[t] = "idle"
    /\ calls < MaxCalls
    /\ serial => \A u \in Threads : pc[u] = "idle"

\* load_model() without its "if MODEL_LOADED: return True".
LoadCallAlwaysLoads(t) ==
    /\ CanStart(t)
    /\ calls' = calls + 1
    /\ Goto(t, "l_setting", [NoFrame EXCEPT !.op = "load", !.before = last])
    /\ UNCHANGED <<globals, torch_load, rng, environment, preprocessor, kept, launcher, nextId>>

\* load_model(): the MODEL_LOADED test
LoadCall(t) ==
    /\ CanStart(t)
    /\ calls' = calls + 1
    /\ IF MODEL_LOADED
         THEN LoadReturn(t, TRUE, MODEL_LOADED)
         ELSE Goto(t, "l_setting", [NoFrame EXCEPT !.op = "load", !.before = last])
    /\ UNCHANGED <<globals, torch_load, rng, environment, preprocessor, kept, launcher, nextId>>

\* _test_cuda_functionality(): False when CUDA is not available, else the
\* outcome of the tensor round trip (an exception inside it is a False)
TestCudaFunctionality == IF cuda_available THEN BOOLEAN ELSE {FALSE}

\* _test_mps_functionality()
TestMpsFunctionality == IF mps_available THEN BOOLEAN ELSE {FALSE}

\* One call of a probe and what it returned.
Probe(name, passed) == [probe |-> name, passed |-> passed]

\* The branches of the device test, given what each probe returns if it is
\* called (cuda, mps): the device chosen and the probe calls made, in order.

\* The "auto" branch calling the MPS probe first.
ResolveAutoMpsFirst(cuda, mps) ==
    IF mps THEN [device |-> "mps", probes |-> <<Probe("mps", mps)>>]
    ELSE IF cuda THEN [device |-> "cuda", probes |-> <<Probe("mps", mps), Probe("cuda", cuda)>>]
    ELSE [device |-> "cpu", probes |-> <<Probe("mps", mps), Probe("cuda", cuda)>>]

\* if device_setting == "auto":
ResolveAuto(cuda, mps) ==
    IF cuda THEN [device |-> "cuda", probes |-> <<Probe("cuda", cuda)>>]
    ELSE IF mps THEN [device |-> "mps", probes |-> <<Probe("cuda", cuda), Probe("mps", mps)>>]
    ELSE [device |-> "cpu", probes |-> <<Probe("cuda", cuda), Probe("mps", mps)>>]

\* The "cuda" branch going on to the MPS probe when CUDA fails.
ResolveCudaThenMps(cuda, mps) ==
    IF cuda THEN [device |-> "cuda", probes |-> <<Probe("cuda", cuda)>>]
    ELSE IF mps THEN [device |-> "mps", probes |-> <<Probe("cuda", cuda), Probe("mps", mps)>>]
    ELSE [device |-> "cpu", probes |-> <<Probe("cuda", cuda), Probe("mps", mps)>>]

\* elif device_setting == "cuda":
ResolveCuda(cuda, mps) ==
    [device |-> IF cuda THEN "cuda" ELSE "cpu", probes |-> <<Probe("cuda", cuda)>>]

\* elif device_setting == "mps":
ResolveMps(cuda, mps) ==
    [device |-> IF mps THEN "mps" ELSE "cpu", probes |-> <<Probe("mps", mps)>>]

\* elif device_setting == "cpu":
ResolveCpu == [device |-> "cpu", probes |-> << >>]

\* The else branch settling on the CPU without auto-detection.
ResolveInvalidAsCpu(cuda, mps) == [device |-> "cpu", probes |-> << >>]

\* else: the invalid setting, "Defaulting to auto-detection"
ResolveInvalid(cuda, mps) ==
    IF cuda THEN [device |-> "cuda", probes |-> <<Probe("cuda", cuda)>>]
    ELSE IF mps THEN [device |-> "mps", probes |-> <<Probe("cuda", cuda), Probe("mps", mps)>>]
    ELSE [device |-> "cpu", probes |-> <<Probe("cuda", cuda), Probe("mps", mps)>>]

\* The device test of load_model() for device_setting.
ResolveDevice(device_setting, cuda, mps) ==
    IF device_setting = "auto" THEN ResolveAuto(cuda, mps)
    ELSE IF device_setting = "cuda" THEN ResolveCuda(cuda, mps)
    ELSE IF device_setting = "mps" THEN ResolveMps(cuda, mps)
    ELSE IF device_setting = "cpu" THEN ResolveCpu
    ELSE ResolveInvalid(cuda, mps)

\* device_setting = config_manager.get_string("tts_engine.device", "auto"), the
\* device branch with its probes, and model_device = resolved_device_str; an
\* unexpected error on the way reaches the outer handler
LoadDevice(t) ==
    /\ pc[t] = "l_setting"
    /\ \E unexpected \in BOOLEAN, cuda \in TestCudaFunctionality, mps \in TestMpsFunctionality :
         LET r == ResolveDevice(config.device, cuda, mps) IN
         IF unexpected
           THEN /\ Goto(t, "l_except", frame[t])
                /\ model_device' = model_device
           ELSE /\ Goto(t, "l_variant",
                        [frame[t] EXCEPT !.device_setting = config.device,
                                         !.resolved_device_str = r.device,
                                         !.probes = r.probes])
                /\ model_device' = r.device
    /\ UNCHANGED <<chatterbox_model, MODEL_LOADED, use_multilingual_model,
                   torch_load, rng, environment, preprocessor, kept, launcher, calls, nextId>>

\* use_multilingual_model = config_manager.get_bool("model.use_multilingual", True)
LoadVariant(t) ==
    /\ pc[t] = "l_variant"
    /\ use_multilingual_model' = config.use_multilingual
    /\ Goto(t, "l_available", frame[t])
    /\ UNCHANGED <<chatterbox_model, MODEL_LOADED, model_device,
                   torch_load, rng, environment, preprocessor, kept, launcher, calls, nextId>>

\* if use_multilingual_model and not MULTILINGUAL_AVAILABLE: use_multilingual_model = False
LoadAvailable(t) ==
    /\ pc[t] = "l_available"
    /\ use_multilingual_model' =
         IF use_multilingual_model /\ ~MULTILINGUAL_AVAILABLE THEN FALSE
         ELSE use_multilingual_model
    /\ Goto(t, "l_branch", frame[t])
    /\ UNCHANGED <<chatterbox_model, MODEL_LOADED, model_device,
                   torch_load, rng, environment, preprocessor, kept, launcher, calls, nextId>>

\* the variant test, and original_torch_load = torch.load on the multilingual path
LoadBranch(t) ==
    /\ pc[t] = "l_branch"
    /\ IF use_multilingual_model /\ MULTILINGUAL_AVAILABLE
         THEN Goto(t, "l_patch", [frame[t] EXCEPT !.original_torch_load = torch_load])
         ELSE Goto(t, "l_mono", frame[t])
    /\ UNCHANGED <<globals, torch_load, rng, environment, preprocessor, kept, launcher, calls, nextId>>

\* if model_device != "cuda": torch.load = patched_torch_load, a wrapper of
\* original_torch_load that supplies map_location = torch.device(model_device)
LoadPatch(t) ==
    /\ pc[t] = "l_patch"
    /\ torch_load' = IF model_device # "cuda"
                       THEN Append(frame[t].original_torch_load, model_device)
                       ELSE torch_load
    /\ Goto(t, "l_mtl", frame[t])
    /\ UNCHANGED <<globals, rng, environment, preprocessor, kept, launcher, calls, nextId>>

\* The map_location torch.load applies when the caller passes none: the
\* outermost wrapper's device, or the library default for the original.
MapLocation(load) == IF load = << >> THEN "default" ELSE load[Len(load)]

\* from_pretrained(device=model_device): raises, or returns a new model object
FromPretrained(t, multilingual, returned, raising) ==
    /\ \E ok \in BOOLEAN :
         LET f == [frame[t] EXCEPT !.instantiations = @ + 1] IN
         IF ok
           THEN /\ Goto(t, returned,
                        [f EXCEPT !.built = [id |-> nextId, device |-> model_device,
                                             multilingual |-> multilingual,
                                             map_location |-> MapLocation(torch_load)]])
                /\ nextId' = nextId + 1
           ELSE /\ Goto(t, raising, [f EXCEPT !.raised = TRUE])
                /\ nextId' = nextId
    /\ UNCHANGED <<globals, torch_load, rng, environment, preprocessor, kept, launcher, calls>>

\* ChatterboxMultilingualTTS.from_pretrained(device=model_device)
LoadMtlFromPretrained(t) ==
    /\ pc[t] = "l_mtl"
    /\ FromPretrained(t, TRUE, "l_mtl_assign", "l_restore")

\* chatterbox_model = <the object built>, on the multilingual path
LoadMtlAssign(t) ==
    /\ pc[t] = "l_mtl_assign"
    /\ chatterbox_model' = frame[t].built
    /\ Goto(t, "l_restore", frame[t])
    /\ UNCHANGED <<MODEL_LOADED, model_device, use_multilingual_model,
                   torch_load, rng, environment, preprocessor, kept, launcher, calls, nextId>>

\* finally: torch.load = original_torch_load
LoadRestore(t) ==
    /\ pc[t] = "l_restore"
    /\ torch_load' = frame[t].original_torch_load
    /\ Goto(t, IF frame[t].raised THEN "l_hf_except" ELSE "l_loaded", frame[t])
    /\ UNCHANGED <<globals, rng, environment, preprocessor, kept, launcher, calls, nextId>>

\* ChatterboxTTS.from_pretrained(device=model_device)
LoadMonoFromPretrained(t) ==
    /\ pc[t] = "l_mono"
    /\ FromPretrained(t, FALSE, "l_mono_assign", "l_hf_except")

\* chatterbox_model = <the object built>, on the English-only path
LoadMonoAssign(t) ==
    /\ pc[t] = "l_mono_assign"
    /\ chatterbox_model' = frame[t].built
    /\ Goto(t, "l_loaded", frame[t])
    /\ UNCHANGED <<MODEL_LOADED, model_device, use_multilingual_model,
                   torch_load, rng, environment, preprocessor, kept, launcher, calls, nextId>>

\* except Exception as e_hf: chatterbox_model = None
LoadHfExcept(t) ==
    /\ pc[t] = "l_hf_except"
    /\ chatterbox_model' = NoModel
    /\ Goto(t, "l_hf_except2", frame[t])
    /\ UNCHANGED <<MODEL_LOADED, model_device, use_multilingual_model,
                   torch_load, rng, environment, preprocessor, kept, launcher, calls, nextId>>

\* The inner handler leaving MODEL_LOADED set after a failed instantiation.
LoadHfExceptReturnPoisoned(t) ==
    /\ pc[t] = "l_hf_except2"
    /\ MODEL_LOADED' = TRUE
    /\ LoadReturn(t, FALSE, TRUE)
    /\ UNCHANGED <<chatterbox_model, model_device, use_multilingual_model,
                   torch_load, rng, environment, preprocessor, kept, launcher, calls, nextId>>

\* except Exception as e_hf: MODEL_LOADED = False; return False
LoadHfExceptReturn(t) ==
    /\ pc[t] = "l_hf_except2"
    /\ MODEL_LOADED' = FALSE
    /\ LoadReturn(t, FALSE, FALSE)
    /\ UNCHANGED <<chatterbox_model, model_device, use_multilingual_model,
                   torch_load, rng, environment, preprocessor, kept, launcher, calls, nextId>>

\* MODEL_LOADED = True
LoadLoaded(t) ==
    /\ pc[t] = "l_loaded"
    /\ MODEL_LOADED' = TRUE
    /\ Goto(t, "l_check", frame[t])
    /\ UNCHANGED <<chatterbox_model, model_device, use_multilingual_model,
                   torch_load, rng, environment, preprocessor, kept, launcher, calls, nextId>>

\* if chatterbox_model: return True
LoadCheck(t) ==
    /\ pc[t] = "l_check"
    /\ IF chatterbox_model # NoModel
         THEN LoadReturn(t, TRUE, MODEL_LOADED)
         ELSE Goto(t, "l_none", frame[t])
    /\ UNCHANGED <<globals, torch_load, rng, environment, preprocessor, kept, launcher, calls, nextId>>

\* else: MODEL_LOADED = False; return False
LoadNone(t) ==
    /\ pc[t] = "l_none"
    /\ MODEL_LOADED' = FALSE
    /\ LoadReturn(t, FALSE, FALSE)
    /\ UNCHANGED <<chatterbox_model, model_device, use_multilingual_model,
                   torch_load, rng, environment, preprocessor, kept, launcher, calls, nextId>>

\* except Exception as e: chatterbox_model = None
LoadExcept(t) ==
    /\ pc[t] = "l_except"
    /\ chatterbox_model' = NoModel
    /\ Goto(t, "l_except2", frame[t])
    /\ UNCHANGED <<MODEL_LOADED, model_device, use_multilingual_model,
                   torch_load, rng, environment, preprocessor, kept, launcher, calls, nextId>>

\* except Exception as e: MODEL_LOADED = False; return False
LoadExceptReturn(t) ==
    /\ pc[t] = "l_except2"
    /\ MODEL_LOADED' = FALSE
    /\ LoadReturn(t, FALSE, FALSE)
    /\ UNCHANGED <<chatterbox_model, model_device, use_multilingual_model,
                   torch_load, rng, environment, preprocessor, kept, launcher, calls, nextId>>

Load(t) ==
    \/ LoadCall(t) \/ LoadDevice(t) \/ LoadVariant(t) \/ LoadAvailable(t) \/ LoadBranch(t)
    \/ LoadPatch(t) \/ LoadMtlFromPretrained(t) \/ LoadMtlAssign(t)
    \/ LoadRestore(t) \/ LoadMonoFromPretrained(t) \/ LoadMonoAssign(t)
    \/ LoadHfExcept(t) \/ LoadHfExceptReturn(t) \/ LoadLoaded(t) \/ LoadCheck(t)
    \/ LoadNone(t) \/ LoadExcept(t) \/ LoadExceptReturn(t)

\* ------------------------------------------------------------ synthesize

\* return wav, sr from synthesize; (None, None) is (NoWav, NoSr)
SynthReturn(t, wav, sr) ==
    Return(t, [NoRet EXCEPT !.op = "synth", !.ok = (wav # NoWav), !.wav = wav, !.sr = sr,
                            !.ran = (frame[t].op = "synth"),
                            !.seed = frame[t].seed,
                            !.generations = frame[t].generations,
                            !.warned = frame[t].warned],
           MODEL_LOADED)

\* The texts callers pass: the text is only handed on to generate(), and
\* concurrent callers all pass the same one.
CallerTexts == IF serial THEN Texts ELSE {"hello"}

\* synthesize() without its "not MODEL_LOADED" test.
SynthCallUnguarded(t) ==
    /\ CanStart(t)
    /\ calls' = calls + 1
    /\ \E text \in CallerTexts, seed \in Seeds, language_id \in Languages :
         Goto(t, "s_check",
              [NoFrame EXCEPT !.op = "synth", !.text = text, !.seed = seed,
                              !.language_id = language_id, !.before = last])
    /\ UNCHANGED <<globals, torch_load, rng, environment, preprocessor, kept, launcher, nextId>>

\* synthesize(text, ..., seed, language_id): the "not MODEL_LOADED" test
SynthCall(t) ==
    /\ CanStart(t)
    /\ calls' = calls + 1
    /\ \E text \in CallerTexts, seed \in Seeds, language_id \in Languages :
         IF ~MODEL_LOADED
           THEN SynthReturn(t, NoWav, NoSr)
           ELSE Goto(t, "s_check",
                     [NoFrame EXCEPT !.op = "synth", !.text = text, !.seed = seed,
                                     !.language_id = language_id, !.before = last])
    /\ UNCHANGED <<globals, torch_load, rng, environment, preprocessor, kept, launcher, nextId>>

\* synthesize() calling set_seed(seed) whatever the seed.
SynthCheckAlwaysSeeds(t) ==
    /\ pc[t] = "s_check"
    /\ IF chatterbox_model = NoModel THEN SynthReturn(t, NoWav, NoSr)
       ELSE Goto(t, "s_seed_torch", frame[t])
    /\ UNCHANGED <<globals, torch_load, rng, environment, preprocessor, kept, launcher, calls, nextId>>

\* the "chatterbox_model is None" test, then the seed test
SynthCheck(t) ==
    /\ pc[t] = "s_check"
    /\ IF chatterbox_model = NoModel THEN SynthReturn(t, NoWav, NoSr)
       ELSE IF frame[t].seed # 0 THEN Goto(t, "s_seed_torch", frame[t])
       ELSE Goto(t, "s_dispatch", frame[t])
    /\ UNCHANGED <<globals, torch_load, rng, environment, preprocessor, kept, launcher, calls, nextId>>

\* One statement of set_seed(seed_value): subsystem sub takes the state the
\* seed stands for; next is the statement that follows.
SetSeed(t, sub, next) ==
    /\ rng' = [rng EXCEPT ![sub] = frame[t].seed % RngMod]
    /\ Goto(t, next, [frame[t] EXCEPT !.seeded[sub] = frame[t].seed])
    /\ UNCHANGED <<globals, torch_load, environment, preprocessor, kept, launcher, calls, nextId>>

\* set_seed() without its CUDA block.
AfterTorchSkipsCuda == IF mps_available THEN "s_seed_mps" ELSE "s_seed_random"

\* The statement of set_seed() after the CUDA block, and after the MPS block:
\* a block whose is_available() is False is passed over.
AfterCuda == IF mps_available THEN "s_seed_mps" ELSE "s_seed_random"
AfterTorch == IF cuda_available THEN "s_seed_cuda" ELSE AfterCuda

\* torch.manual_seed(seed_value)
SetSeedTorch(t) == pc[t] = "s_seed_torch" /\ SetSeed(t, "torch", AfterTorch)

\* if torch.cuda.is_available(): torch.cuda.manual_seed(_all)(seed_value)
SetSeedCuda(t) == pc[t] = "s_seed_cuda" /\ SetSeed(t, "cuda", AfterCuda)

\* if torch.backends.mps.is_available(): torch.mps.manual_seed(seed_value)
SetSeedMps(t) == pc[t] = "s_seed_mps" /\ SetSeed(t, "mps", "s_seed_random")

\* random.seed(seed_value)
SetSeedRandom(t) == pc[t] = "s_seed_random" /\ SetSeed(t, "random", "s_seed_numpy")

\* set_seed() without its np.random.seed(seed_value).
SetSeedNumpySkips(t) ==
    /\ pc[t] = "s_seed_numpy"
    /\ Goto(t, "s_dispatch", frame[t])
    /\ UNCHANGED <<globals, torch_load, rng, environment, preprocessor, kept, launcher, calls, nextId>>

\* np.random.seed(seed_value)
SetSeedNumpy(t) == pc[t] = "s_seed_numpy" /\ SetSeed(t, "numpy", "s_dispatch")

\* The default language fixed at "en" instead of read from the configuration.
EffectiveLanguageEnglish(language_id) == IF language_id # "None" THEN language_id ELSE "en"

\* language_id or config_manager.get_string("generation_defaults.language", "en")
EffectiveLanguage(language_id) == IF language_id # "None" THEN language_id ELSE config.language

\* The English-only branch handing a requested language on to generate().
SynthDispatchPassesTag(t) ==
    /\ pc[t] = "s_dispatch"
    /\ IF use_multilingual_model /\ MULTILINGUAL_AVAILABLE /\ chatterbox_model.multilingual
         THEN Goto(t, "s_generate",
                   [frame[t] EXCEPT !.call.language_id = EffectiveLanguage(frame[t].language_id)])
         ELSE Goto(t, "s_generate",
                   [frame[t] EXCEPT !.call.language_id = IF frame[t].language_id = "None"
                                                            THEN "NoTag" ELSE frame[t].language_id,
                                    !.warned = frame[t].language_id \notin {"None", "en"}])
    /\ UNCHANGED <<globals, torch_load, rng, environment, preprocessor, kept, launcher, calls, nextId>>

\* the variant test: the multilingual convention passes language_id, the
\* English-only one passes none ("NoTag") and warns about a non-English request
SynthDispatch(t) ==
    /\ pc[t] = "s_dispatch"
    /\ IF use_multilingual_model /\ MULTILINGUAL_AVAILABLE /\ chatterbox_model.multilingual
         THEN Goto(t, "s_generate",
                   [frame[t] EXCEPT !.call.language_id = EffectiveLanguage(frame[t].language_id)])
         ELSE Goto(t, "s_generate",
                   [frame[t] EXCEPT !.call.language_id = "NoTag",
                                    !.warned = frame[t].language_id \notin {"None", "en"}])
    /\ UNCHANGED <<globals, torch_load, rng, environment, preprocessor, kept, launcher, calls, nextId>>

\* chatterbox_model.generate(...) is entered: the attribute lookup on None, or a
\* calling convention the object does not have, raises into the handler
SynthGenerate(t) ==
    /\ pc[t] = "s_generate"
    /\ IF \/ chatterbox_model = NoModel
          \/ chatterbox_model.multilingual # (frame[t].call.language_id # "NoTag")
         THEN SynthReturn(t, NoWav, NoSr)
         ELSE Goto(t, "s_generating",
                   [frame[t] EXCEPT !.generations = @ + 1,
                                    !.call.model = chatterbox_model.id,
                                    !.call.text = frame[t].text,
                                    !.call.rng = rng])
    /\ UNCHANGED <<globals, torch_load, rng, environment, preprocessor, kept, launcher, calls, nextId>>

\* The generators that exist in the process: torch's, random's and numpy's,
\* and those of the backends whose is_available() holds.
Generators ==
    {"torch", "random", "numpy"} \cup (IF cuda_available THEN {"cuda"} ELSE {})
                                 \cup (IF mps_available THEN {"mps"} ELSE {})

\* The RNG state after one generation has drawn from every generator there is.
Advance(state) ==
    [s \in RngSubsystems |-> IF s \in Generators THEN (state[s] + 1) % RngMod ELSE state[s]]

\* The handler of synthesize() dropping the model as load_model()'s handlers do.
SynthGeneratedUnloads(t) ==
    /\ pc[t] = "s_generating"
    /\ \E ok \in BOOLEAN :
         IF ok
           THEN /\ Goto(t, "s_return", [frame[t] EXCEPT !.wav_tensor = frame[t].call])
                /\ rng' = Advance(rng)
                /\ UNCHANGED globals
           ELSE /\ SynthReturn(t, NoWav, NoSr)
                /\ rng' = rng
                /\ chatterbox_model' = NoModel
                /\ MODEL_LOADED' = FALSE
                /\ UNCHANGED <<model_device, use_multilingual_model>>
    /\ UNCHANGED <<torch_load, environment, preprocessor, kept, launcher, calls, nextId>>

\* generate(...) finishes: a waveform, a function of the call and of the RNG
\* state it started from, or an exception caught by "except Exception"
SynthGenerated(t) ==
    /\ pc[t] = "s_generating"
    /\ \E ok \in BOOLEAN :
         IF ok
           THEN /\ Goto(t, "s_return", [frame[t] EXCEPT !.wav_tensor = frame[t].call])
                /\ rng' = Advance(rng)
           ELSE /\ SynthReturn(t, NoWav, NoSr)
                /\ rng' = rng
    /\ UNCHANGED <<globals, torch_load, environment, preprocessor, kept, launcher, calls, nextId>>

\* The return statement handing back the waveform when the handle has no sr.
SynthFinishPartial(t) ==
    /\ pc[t] = "s_return"
    /\ IF chatterbox_model = NoModel
         THEN SynthReturn(t, frame[t].wav_tensor, NoSr)
         ELSE SynthReturn(t, frame[t].wav_tensor, S3GEN_SR)
    /\ UNCHANGED <<globals, torch_load, rng, environment, preprocessor, kept, launcher, calls, nextId>>

\* return wav_tensor, chatterbox_model.sr
SynthFinish(t) ==
    /\ pc[t] = "s_return"
    /\ IF chatterbox_model = NoModel
         THEN SynthReturn(t, NoWav, NoSr)
         ELSE SynthReturn(t, frame[t].wav_tensor, S3GEN_SR)
    /\ UNCHANGED <<globals, torch_load, rng, environment, preprocessor, kept, launcher, calls, nextId>>

Synth(t) ==
    \/ SynthCall(t) \/ SynthCheck(t) \/ SetSeedTorch(t) \/ SetSeedCuda(t)
    \/ SetSeedMps(t) \/ SetSeedRandom(t) \/ SetSeedNumpy(t) \/ SynthDispatch(t)
    \/ SynthGenerate(t) \/ SynthGenerated(t) \/ SynthFinish(t)

Next == \E t \in Threads : Load(t) \/ Synth(t) \/ Idle(t)

Spec == Init /\ [][Next]_vars

\* The caller notes the seed and the waveform of the call that returned, and is
\* free for its next call.
Keep(t) ==
    /\ pc[t] = "done" /\ ret[t].op = "synth" /\ ret[t].ok
    /\ kept' = [seed |-> ret[t].seed, wav |-> ret[t].wav]
    /\ pc' = [pc EXCEPT ![t] = "idle"]
    /\ ret' = [ret EXCEPT ![t] = NoRet]
    /\ UNCHANGED <<globals, torch_load, rng, environment, preprocessor, launcher, frame, calls, last, success, nextId>>

\* With one call at a time the "chatterbox_model is None" branch after
\* MODEL_LOADED = True (LoadNone) is never entered.
NextSerial ==
    \E t \in Threads :
        \/ LoadCall(t) \/ LoadDevice(t) \/ LoadVariant(t) \/ LoadAvailable(t)
        \/ LoadBranch(t) \/ LoadPatch(t) \/ LoadMtlFromPretrained(t) \/ LoadMtlAssign(t)
        \/ LoadRestore(t) \/ LoadMonoFromPretrained(t) \/ LoadMonoAssign(t)
        \/ LoadHfExcept(t) \/ LoadHfExceptReturn(t) \/ LoadLoaded(t) \/ LoadCheck(t)
        \/ LoadExcept(t) \/ LoadExceptReturn(t)
        \/ Synth(t) \/ Idle(t)

SpecSerial == InitSerial /\ [][NextSerial]_vars

\* One call at a time with device "auto", either variant and two configured
\* default languages, on every platform.
InitLanguage ==
    /\ InitEngine
    /\ InitLauncher /\ kept = NoKept
    /\ InitPreprocessor /\ llm_enabled = FALSE /\ llm_fallback_on_error = TRUE
    /\ serial = TRUE
    /\ config \in [device : {"auto"}, use_multilingual : BOOLEAN, language : {"en", "fr"}]
    /\ rng = [s \in RngSubsystems |-> 0]

SpecLanguage == InitLanguage /\ [][NextSerial]_vars

\* One call at a time with device "auto" and either variant, from two ambient
\* RNG states, the caller keeping waveforms to compare.
InitRepro ==
    /\ InitEngine
    /\ InitLauncher /\ kept = NoKept
    /\ InitPreprocessor /\ llm_enabled = FALSE /\ llm_fallback_on_error = TRUE
    /\ serial = TRUE
    /\ config \in [device : {"auto"}, use_multilingual : BOOLEAN, language : {"en"}]
    /\ rng \in {[s \in RngSubsystems |-> a] : a \in {0, RngMod - 1}}

NextRepro == NextSerial \/ \E t \in Threads : Keep(t)

SpecRepro == InitRepro /\ [][NextRepro]_vars


\* ----------------------------------------------- preprocess_speech_input

engine == <<globals, torch_load, rng, environment, pc, frame, ret, calls, last,
            success, nextId>>

\* The call ends with outcome ("returned" a result, or "raised"); response is
\* what the provider answered, if it was asked.
PreprocessEnd(outcome, result, f, response, answered) ==
    /\ p_pc' = "done"
    /\ p_ret' = [outcome |-> outcome, result |-> result, input_text |-> f.input_text,
                 enabled |-> llm_enabled, fallback_on_error |-> f.fallback_on_error,
                 settings_read |-> f.settings_read, provider_calls |-> f.provider_calls,
                 response |-> response, answered |-> answered]
    /\ p_frame' = NoPFrame

\* preprocess_speech_input() without its enabled test.
PreprocessCallIgnoresEnabled ==
    /\ p_pc = "idle"
    /\ \E input_text \in InputTexts :
         /\ p_pc' = "p_await"
         /\ p_frame' = [NoPFrame EXCEPT !.input_text = input_text,
                                        !.fallback_on_error = llm_fallback_on_error,
                                        !.settings_read = TRUE,
                                        !.provider_calls = @ + 1]
         /\ p_ret' = p_ret
    /\ UNCHANGED <<engine, kept, launcher, llm_enabled, llm_fallback_on_error>>

\* preprocess_speech_input(input_text) up to "await acompletion(...)": the
\* enabled test, the six settings, and the request sent
PreprocessCall ==
    /\ p_pc = "idle"
    /\ \E input_text \in InputTexts :
         LET f == [NoPFrame EXCEPT !.input_text = input_text] IN
         IF ~llm_enabled
           THEN PreprocessEnd("returned", TTSParamsExtraction(input_text), f, Raised, FALSE)
           ELSE /\ p_pc' = "p_await"
                /\ p_frame' = [f EXCEPT !.fallback_on_error = llm_fallback_on_error,
                                        !.settings_read = TRUE,
                                        !.provider_calls = @ + 1]
                /\ p_ret' = p_ret
    /\ UNCHANGED <<engine, kept, launcher, llm_enabled, llm_fallback_on_error>>

\* The handler falling back whatever fallback_on_error says.
PreprocessExceptAlwaysFallsBack(response) ==
    PreprocessEnd("returned", TTSParamsExtraction(p_frame.input_text), p_frame, response, TRUE)

\* A handler that sends the request again.
PreprocessExceptRetries(response) ==
    /\ p_pc' = "p_await"
    /\ p_frame' = [p_frame EXCEPT !.provider_calls = @ + 1]
    /\ p_ret' = p_ret

\* except Exception as e: the fallback result, or the exception raised again
PreprocessExcept(response) ==
    IF p_frame.fallback_on_error
      THEN PreprocessEnd("returned", TTSParamsExtraction(p_frame.input_text), p_frame,
                         response, TRUE)
      ELSE PreprocessEnd("raised", NoExtraction, p_frame, response, TRUE)

\* acompletion(...) raises, or answers with a body that model_validate_json
\* accepts (return result) or rejects (the handler)
PreprocessResponse ==
    /\ p_pc = "p_await"
    /\ \E response \in Contents \cup {Raised} :
         IF response # Raised /\ Validates(response)
           THEN PreprocessEnd("returned", ModelValidateJson(response), p_frame, response, TRUE)
           ELSE PreprocessExcept(response)
    /\ UNCHANGED <<engine, kept, launcher, llm_enabled, llm_fallback_on_error>>

\* The caller takes the outcome.
PreprocessIdle ==
    /\ p_pc = "done"
    /\ p_pc' = "idle"
    /\ p_ret' = NoPRet
    /\ UNCHANGED <<engine, kept, launcher, llm_enabled, llm_fallback_on_error, p_frame>>

NextPreprocess == PreprocessCall \/ PreprocessResponse \/ PreprocessIdle

\* The preprocessor alone, under every setting of enabled and fallback_on_error.
InitPreprocess ==
    /\ InitEngine /\ MULTILINGUAL_AVAILABLE /\ ~cuda_available /\ ~mps_available
    /\ serial = TRUE
    /\ config = DefaultConfig
    /\ rng = [s \in RngSubsystems |-> 0]
    /\ InitLauncher /\ kept = NoKept
    /\ InitPreprocessor
    /\ llm_enabled \in BOOLEAN
    /\ llm_fallback_on_error \in BOOLEAN

SpecPreprocess == InitPreprocess /\ [][NextPreprocess]_vars

\* A request: its input is preprocessed, under every setting of enabled and
\* fallback_on_error, and the engine is then called, one call at a time, with
\* the default configuration on every platform.
InitPipeline ==
    /\ InitEngine
    /\ InitLauncher /\ kept = NoKept
    /\ InitPreprocessor
    /\ llm_enabled \in BOOLEAN
    /\ llm_fallback_on_error \in BOOLEAN
    /\ serial = TRUE
    /\ config = DefaultConfig
    /\ rng = [s \in RngSubsystems |-> 0]

NextPipeline ==
    \/ calls = 0 /\ NextPreprocess
    \/ p_pc = "idle" /\ NextSerial

SpecPipeline == InitPipeline /\ [][NextPipeline]_vars

\* ---------------------------------------------------------------- start.py

\* A step of main() to position label.
MainGoto(label) ==
    /\ m_pc' = label
    /\ exit_code' = exit_code

\* sys.exit(code), or an exception leaving main(): the launcher process ends.
Exit(code) ==
    /\ m_pc' = "exited"
    /\ exit_code' = code

\* check_windows(): sys.exit(0) on any platform other than win32
CheckWindows ==
    /\ m_pc = "check_windows"
    /\ \E win32 \in BOOLEAN :
         IF win32 THEN MainGoto("check_python_version") ELSE Exit("0")
    /\ UNCHANGED <<engine, kept, preprocessor, server_process, server, polls, caller, cleanups, signals>>

\* check_python_version(): sys.exit(1) below Python 3.10
CheckPythonVersion ==
    /\ m_pc = "check_python_version"
    /\ \E supported \in BOOLEAN :
         IF supported THEN MainGoto("ensure_venv") ELSE Exit("1")
    /\ UNCHANGED <<engine, kept, preprocessor, server_process, server, polls, caller, cleanups, signals>>

\* ensure_venv(): sys.exit(1) when the virtual environment cannot be created
EnsureVenv ==
    /\ m_pc = "ensure_venv"
    /\ \E created \in BOOLEAN :
         IF created THEN MainGoto("install_dependencies") ELSE Exit("1")
    /\ UNCHANGED <<engine, kept, preprocessor, server_process, server, polls, caller, cleanups, signals>>

\* install_dependencies(): sys.exit(1) when an install is needed and
\* requirements.txt is missing
InstallDependencies ==
    /\ m_pc = "install_dependencies"
    /\ \E installable \in BOOLEAN :
         IF installable THEN MainGoto("check_port_in_use") ELSE Exit("1")
    /\ UNCHANGED <<engine, kept, preprocessor, server_process, server, polls, caller, cleanups, signals>>

\* read_config(), then check_port_in_use(host, port): sys.exit(1) when in use
CheckPortInUse ==
    /\ m_pc = "check_port_in_use"
    /\ \E in_use \in BOOLEAN :
         IF in_use THEN Exit("1") ELSE MainGoto("launch_server")
    /\ UNCHANGED <<engine, kept, preprocessor, server_process, server, polls, caller, cleanups, signals>>

\* _server_process = launch_server(...): sys.exit(1) without server.py, else
\* the Popen object of the started process
LaunchServer ==
    /\ m_pc = "launch_server"
    /\ \E exists \in BOOLEAN :
         IF exists
           THEN /\ MainGoto("wait_for_server")
                /\ server_process' = "Popen"
                /\ server' = "starting"
           ELSE /\ Exit("1")
                /\ UNCHANGED <<server_process, server>>
    /\ UNCHANGED <<engine, kept, preprocessor, polls, caller, cleanups, signals>>

\* The server process starts listening on its port.
ServerListens ==
    /\ server = "starting"
    /\ server' = "listening"
    /\ UNCHANGED <<engine, kept, preprocessor, m_pc, server_process, polls, caller, cleanups,
                   signals, exit_code>>

\* The server process ends by itself.
ServerExits ==
    /\ server \in {"starting", "listening"}
    /\ server' = "exited"
    /\ UNCHANGED <<engine, kept, preprocessor, m_pc, server_process, polls, caller, cleanups,
                   signals, exit_code>>

\* wait_for_server(): one turn of its loop; a connection returns True, a
\* refused one sleeps PORT_CHECK_INTERVAL, the elapsed timeout returns False
WaitForServer ==
    /\ m_pc = "wait_for_server"
    /\ IF polls < MaxPolls
         THEN IF server = "listening"
                THEN MainGoto("print_status_box") /\ polls' = polls
                ELSE MainGoto("wait_for_server") /\ polls' = polls + 1
         ELSE MainGoto("not_ready") /\ polls' = polls
    /\ UNCHANGED <<engine, kept, preprocessor, server_process, server, caller, cleanups, signals>>

\* cleanup_server(_server_process) is called from call site site
CleanupServer(site) ==
    /\ MainGoto("cleanup_poll")
    /\ caller' = site
    /\ cleanups' = cleanups + 1

\* if not server_ready: ... cleanup_server(_server_process)
NotReady ==
    /\ m_pc = "not_ready"
    /\ CleanupServer("not_ready")
    /\ UNCHANGED <<engine, kept, preprocessor, server_process, server, polls, signals>>

\* print_status_box(host, port); auto_open is False
PrintStatusBox ==
    /\ m_pc = "print_status_box"
    /\ MainGoto("keep_running")
    /\ UNCHANGED <<engine, kept, preprocessor, server_process, server, polls, caller, cleanups, signals>>

\* while True: if _server_process.poll() is not None: break
KeepRunning ==
    /\ m_pc = "keep_running"
    /\ server = "exited"
    /\ MainGoto("after_loop")
    /\ UNCHANGED <<engine, kept, preprocessor, server_process, server, polls, caller, cleanups, signals>>

\* Ctrl+C: KeyboardInterrupt is raised at the statement main() is at; only the
\* keep-running loop is inside "try: ... except KeyboardInterrupt"
KeyboardInterrupt ==
    /\ m_pc # "exited"
    /\ IF m_pc = "keep_running"
         THEN MainGoto("interrupted")
         ELSE Exit("KeyboardInterrupt")
    /\ UNCHANGED <<engine, kept, preprocessor, server_process, server, polls, caller, cleanups, signals>>

\* except KeyboardInterrupt: ... cleanup_server(_server_process)
Interrupted ==
    /\ m_pc = "interrupted"
    /\ CleanupServer("interrupted")
    /\ UNCHANGED <<engine, kept, preprocessor, server_process, server, polls, signals>>

\* after the loop: cleanup_server(_server_process)
AfterLoop ==
    /\ m_pc = "after_loop"
    /\ CleanupServer("after_loop")
    /\ UNCHANGED <<engine, kept, preprocessor, server_process, server, polls, signals>>

\* cleanup_server() returns to its call site, which exits: sys.exit(1) after a
\* failed start, sys.exit(0) after Ctrl+C, the server's return code otherwise
CleanupReturn ==
    Exit(IF caller = "not_ready" THEN "1"
         ELSE IF caller = "interrupted" THEN "0"
         ELSE "returncode")

\* if process is None or process.poll() is not None: return
CleanupPoll ==
    /\ m_pc = "cleanup_poll"
    /\ IF server_process = "None" \/ server = "exited"
         THEN CleanupReturn
         ELSE MainGoto("cleanup_terminate")
    /\ UNCHANGED <<engine, kept, preprocessor, server_process, server, polls, caller, cleanups, signals>>

\* process.terminate(); an Exception it raises is passed over
CleanupTerminate ==
    /\ m_pc = "cleanup_terminate"
    /\ \E raised \in BOOLEAN :
         IF raised
           THEN CleanupReturn /\ signals' = signals /\ server' = server
           ELSE /\ MainGoto("cleanup_wait")
                /\ signals' = Append(signals, "terminate")
                /\ server' = IF server = "exited" THEN server ELSE "terminating"
    /\ UNCHANGED <<engine, kept, preprocessor, server_process, polls, caller, cleanups>>

\* The server process ends on the termination request.
ServerTerminates ==
    /\ server = "terminating"
    /\ server' = "exited"
    /\ UNCHANGED <<engine, kept, preprocessor, m_pc, server_process, polls, caller, cleanups,
                   signals, exit_code>>

\* process.wait(timeout=5): returns once the process has ended, raises
\* TimeoutExpired while it is still alive
CleanupWait ==
    /\ m_pc = "cleanup_wait"
    /\ IF server = "exited" THEN CleanupReturn ELSE MainGoto("cleanup_kill")
    /\ UNCHANGED <<engine, kept, preprocessor, server_process, server, polls, caller, cleanups, signals>>

\* except subprocess.TimeoutExpired: process.kill()
CleanupKill ==
    /\ m_pc = "cleanup_kill"
    /\ MainGoto("cleanup_wait_killed")
    /\ signals' = Append(signals, "kill")
    /\ server' = "exited"
    /\ UNCHANGED <<engine, kept, preprocessor, server_process, polls, caller, cleanups>>

\* process.wait(timeout=2), then the return
CleanupWaitKilled ==
    /\ m_pc = "cleanup_wait_killed"
    /\ CleanupReturn
    /\ UNCHANGED <<engine, kept, preprocessor, server_process, server, polls, caller, cleanups, signals>>

NextLauncher ==
    \/ CheckWindows \/ CheckPythonVersion \/ EnsureVenv \/ InstallDependencies
    \/ CheckPortInUse \/ LaunchServer \/ ServerListens \/ ServerExits \/ WaitForServer
    \/ NotReady \/ PrintStatusBox \/ KeepRunning \/ KeyboardInterrupt \/ Interrupted
    \/ AfterLoop \/ CleanupPoll \/ CleanupTerminate \/ ServerTerminates \/ CleanupWait
    \/ CleanupKill \/ CleanupWaitKilled

\* The launcher alone, from the start of main().
InitStart ==
    /\ InitEngine /\ MULTILINGUAL_AVAILABLE /\ ~cuda_available /\ ~mps_available
    /\ serial = TRUE
    /\ config = DefaultConfig
    /\ rng = [s \in RngSubsystems |-> 0]
    /\ InitLauncher /\ kept = NoKept
    /\ InitPreprocessor /\ llm_enabled = FALSE /\ llm_fallback_on_error = TRUE

SpecLauncher == InitStart /\ [][NextLauncher]_vars

\* ---------------------------------------------------------------- claims

\* A step in which thread t enters call op (and may return from it at once).
Calls(t, op) ==
    /\ pc[t] = "idle"
    /\ pc'[t] # "idle"
    /\ (frame'[t].op = op \/ ret'[t].op = op)

\* C1: whenever load_model() is called while MODEL_LOADED is true it returns
\* True at once, having run no probe and no from_pretrained, and leaves the
\* handle, the recorded device, the variant flag (and torch.load) as they were.
C1_LoadIdempotentOnceLoaded ==
    [][\A t \in Threads :
         (Calls(t, "load") /\ MODEL_LOADED) =>
            /\ pc'[t] = "done"
            /\ ret'[t].op = "load" /\ ret'[t].ok
            /\ ret'[t].probes = << >> /\ ret'[t].instantiations = 0
            /\ globals' = globals
            /\ torch_load' = torch_load /\ nextId' = nextId]_vars

\* A load_model() call has just returned True on the already-loaded path.
C1_Witness ==
    \E t \in Threads :
        /\ pc[t] = "done" /\ ret[t].op = "load" /\ ret[t].ok
        /\ ret[t].instantiations = 0 /\ ret[t].probes = << >>
        /\ MODEL_LOADED /\ chatterbox_model # NoModel

\* C2: whenever synthesize() is called while the model is not loaded
\* (MODEL_LOADED false: never loaded, or the last load failed) it returns
\* (None, None) and makes no generation call, whatever its arguments.
C2_SynthesizeNotReady ==
    [][\A t \in Threads :
         (Calls(t, "synth") /\ ~MODEL_LOADED) =>
            /\ pc'[t] = "done"
            /\ ret'[t].op = "synth" /\ ~ret'[t].ok
            /\ ret'[t].wav = NoWav /\ ret'[t].sr = NoSr
            /\ ret'[t].generations = 0
            /\ rng' = rng]_vars

\* A synthesize() call has just failed as not ready after a failed load.
C2_Witness ==
    \E t \in Threads :
        /\ pc[t] = "done" /\ ret[t].op = "synth" /\ ~ret[t].ok
        /\ ret[t].generations = 0 /\ ~MODEL_LOADED
        /\ ret[t].before.op = "load" /\ ~ret[t].before.ok

\* Thread t is inside the probe-and-instantiate sequence of load_model().
Loading(t) ==
    pc[t] \in {"l_setting", "l_variant", "l_available", "l_branch", "l_patch", "l_mtl",
               "l_mtl_assign", "l_restore", "l_mono", "l_mono_assign", "l_loaded", "l_check"}

\* C3: concurrent load_model() calls are serialized: at most one
\* probe-and-instantiate sequence is executing at any time.
C3_LoadsSerialized == Cardinality({t \in Threads : Loading(t)}) <= 1

\* The RNG subsystems set_seed() seeds on this platform.
Seeded ==
    {"torch", "random", "numpy"} \cup (IF cuda_available THEN {"cuda"} ELSE {})
                                 \cup (IF mps_available THEN {"mps"} ELSE {})

\* C4: seed-then-generate is a critical section: every generate() of a call
\* with a non-zero seed starts from the RNG state set by that call's own seed.
C4_SeedThenGenerateAtomic ==
    \A t \in Threads :
        (pc[t] = "s_generating" /\ frame[t].seed # 0) =>
            \A sub \in Seeded : frame[t].call.rng[sub] = frame[t].seed % RngMod

\* Thread t holds the result of a load_model() call made when the call that
\* had returned last was a load_model() call that returned False.
LoadAfterFailedLoad(t) ==
    /\ pc[t] = "done" /\ ret[t].op = "load"
    /\ ret[t].before.op = "load" /\ ~ret[t].before.ok

\* C5: a load_model() call that follows a failed one and whose instantiation
\* succeeds returns True with the state loaded.
C5_RetryAfterFailureSucceeds ==
    \A t \in Threads :
        (LoadAfterFailedLoad(t) /\ ret[t].built # 0) => (ret[t].ok /\ ret[t].loaded)

\* C6: when load_model() returns False, MODEL_LOADED is false and
\* chatterbox_model is None on return.
C6_FailedLoadLeavesNoHandle ==
    \A t \in Threads :
        (pc[t] = "done" /\ ret[t].op = "load" /\ ~ret[t].ok) =>
            (~ret[t].loaded /\ ret[t].model = 0)

\* C7: once a load_model() call has returned True, MODEL_LOADED stays true and
\* the handle, the recorded device and the variant flag are never replaced.
C7_LoadedForGood ==
    success # NoSuccess =>
        /\ MODEL_LOADED
        /\ chatterbox_model = success.model
        /\ model_device = success.device
        /\ use_multilingual_model = success.multilingual

\* Thread t holds the result of the second of two load_model() calls made one
\* after the other.
SecondLoad(t) == pc[t] = "done" /\ ret[t].op = "load" /\ ret[t].before.op = "load"

\* C8 as stated: of two load_model() calls in a row at most one performs the
\* probe-and-instantiate sequence, and the second returns what the first returned.
C8_SecondLoadRepeatsFirst ==
    \A t \in Threads :
        SecondLoad(t) => (~(ret[t].ran /\ ret[t].before.ran) /\ ret[t].ok = ret[t].before.ok)

\* C8, amended: with one call at a time, the second of two load_model() calls
\* in a row skips the sequence and returns True if the first returned True; if
\* the first returned False it performs the sequence again and returns the
\* outcome of its own attempt.
C8_SecondLoadFollowsState ==
    \A t \in Threads :
        SecondLoad(t) =>
            IF ret[t].before.ok
              THEN ret[t].ok /\ ~ret[t].ran /\ ret[t].instantiations = 0
              ELSE ret[t].ran /\ (ret[t].ok <=> ret[t].built # 0)

\* A second load_model() call has succeeded right after a failed first one.
C8_Witness ==
    \E t \in Threads :
        /\ SecondLoad(t) /\ ~ret[t].before.ok /\ ret[t].before.ran
        /\ ret[t].ok /\ ret[t].ran /\ ret[t].instantiations = 1

\* The provider call, or the validation of its answer, failed.
ExtractionFailed(r) == r.answered /\ (r.response = Raised \/ ~Validates(r.response))

\* C9: when preprocessing is enabled and the provider call or the validation of
\* its answer fails, then with fallback_on_error the call returns the raw input
\* as text with every optional parameter absent, and without fallback_on_error
\* it raises and returns no result.
C9_FailureFallsBackOrPropagates ==
    (p_pc = "done" /\ p_ret.enabled /\ ExtractionFailed(p_ret)) =>
        IF p_ret.fallback_on_error
          THEN /\ p_ret.outcome = "returned"
               /\ p_ret.result.text = {p_ret.input_text}
               /\ \A f \in Fields \ {"text"} : p_ret.result[f] = {}
          ELSE /\ p_ret.outcome = "raised"
               /\ p_ret.result = NoExtraction

\* A call fell back to the raw input after an answer whose temperature is out
\* of bounds (all its other fields being acceptable).
C9_Witness ==
    /\ p_pc = "done" /\ p_ret.enabled /\ p_ret.fallback_on_error
    /\ p_ret.response # Raised /\ p_ret.response.json
    /\ p_ret.response.temperature = {TemperatureLe + 1}
    /\ p_ret.response.text = {"hello world"}
    /\ p_ret.response.exaggeration = {ExaggerationLe}
    /\ p_ret.outcome = "returned"
    /\ p_ret.result = TTSParamsExtraction(p_ret.input_text)

\* C10: with preprocessing disabled the call returns, for every input, the raw
\* input as text with every optional parameter absent, asks no provider and
\* reads no provider setting.
C10_DisabledPassesThrough ==
    (p_pc = "done" /\ ~p_ret.enabled) =>
        /\ p_ret.outcome = "returned"
        /\ p_ret.result.text = {p_ret.input_text}
        /\ \A f \in Fields \ {"text"} : p_ret.result[f] = {}
        /\ p_ret.provider_calls = 0
        /\ ~p_ret.settings_read
        /\ ~p_ret.answered

\* A disabled call has returned the raw input.
C10_Witness ==
    /\ p_pc = "done" /\ ~llm_enabled /\ ~p_ret.enabled
    /\ p_ret.outcome = "returned"
    /\ p_ret.input_text = "speak excitedly: hello world"
    /\ p_ret.result = TTSParamsExtraction("speak excitedly: hello world")

\* Every present numeric field of extraction e lies inside its declared bound.
WithinDeclaredBounds(e) ==
    /\ e.temperature \subseteq TemperatureGe..TemperatureLe
    /\ e.exaggeration \subseteq ExaggerationGe..ExaggerationLe
    /\ e.cfg_weight \subseteq CfgWeightGe..CfgWeightLe
    /\ e.chunk_size \subseteq ChunkSizeGe..ChunkSizeLe

\* C11: out-of-bound values are rejected, never clamped: every result the call
\* returns has each present numeric field inside its bound, and an answer with a
\* field outside its bound is handled as a failure: with fallback_on_error the
\* result is the raw input alone (none of the answer's fields, not its cleaned
\* text), without it the call raises.
C11_OutOfBoundRejected ==
    (p_pc = "done") =>
        /\ p_ret.outcome = "returned" => WithinDeclaredBounds(p_ret.result)
        /\ (p_ret.answered /\ p_ret.response # Raised /\ ~WithinDeclaredBounds(p_ret.response)) =>
              IF p_ret.fallback_on_error
                THEN /\ p_ret.outcome = "returned"
                     /\ p_ret.result = TTSParamsExtraction(p_ret.input_text)
                     /\ p_ret.result.text # p_ret.response.text
                ELSE p_ret.outcome = "raised"

\* A call fell back to the raw input after a well-formed answer whose only
\* out-of-bound field is chunk_size, just under its lower bound.
C11_Witness ==
    /\ p_pc = "done" /\ p_ret.enabled /\ p_ret.fallback_on_error /\ p_ret.answered
    /\ p_ret.response.json /\ p_ret.response.text = {"hello world"}
    /\ p_ret.response.chunk_size = {ChunkSizeGe - 1}
    /\ p_ret.response.temperature = {TemperatureLe}
    /\ p_ret.response.exaggeration = {ExaggerationGe}
    /\ p_ret.response.cfg_weight = {CfgWeightLe}
    /\ p_ret.outcome = "returned"
    /\ p_ret.result = TTSParamsExtraction(p_ret.input_text)

\* Thread t is inside a load_model() call that has resolved its device.
Resolved(t) == frame[t].op = "load" /\ frame[t].device_setting # "None"

\* C12: with device preference "auto" the resolved device is the first
\* functional one in the order cuda, mps, cpu: the CUDA probe is called first
\* and cuda is chosen if it passes; only after it has failed is the MPS probe
\* called, and mps is chosen if that passes, cpu otherwise.
C12_AutoFirstFunctional ==
    \A t \in Threads :
        (Resolved(t) /\ frame[t].device_setting = "auto") =>
            LET P == frame[t].probes
                d == frame[t].resolved_device_str
            IN  /\ Len(P) >= 1 /\ P[1].probe = "cuda"
                /\ IF P[1].passed
                     THEN d = "cuda" /\ Len(P) = 1
                     ELSE /\ Len(P) = 2 /\ P[2].probe = "mps"
                          /\ d = IF P[2].passed THEN "mps" ELSE "cpu"

\* On a machine with both backends, "auto" has chosen mps after a CUDA probe
\* that failed.
C12_Witness ==
    \E t \in Threads :
        /\ Resolved(t) /\ frame[t].device_setting = "auto"
        /\ cuda_available /\ mps_available
        /\ frame[t].resolved_device_str = "mps" /\ model_device = "mps"
        /\ frame[t].probes = <<Probe("cuda", FALSE), Probe("mps", TRUE)>>

\* C13: with preference "cuda" or "mps" only that backend is probed, and a
\* failed probe yields cpu (the call goes on), never the other accelerator;
\* with preference "cpu" no probe is called and cpu is chosen; and whatever the
\* preference, an accelerator is chosen only if its probe passed in this call.
C13_ExplicitPreference ==
    \A t \in Threads :
        Resolved(t) =>
            LET P == frame[t].probes
                d == frame[t].resolved_device_str
                setting == frame[t].device_setting
            IN  /\ setting \in {"cuda", "mps"} =>
                      /\ Len(P) = 1 /\ P[1].probe = setting
                      /\ d = IF P[1].passed THEN setting ELSE "cpu"
                /\ setting = "cpu" => (P = << >> /\ d = "cpu")
                /\ d \in {"cuda", "mps"} =>
                      \E i \in 1..Len(P) : P[i].probe = d /\ P[i].passed
                /\ d \in {"cuda", "mps", "cpu"}
                /\ pc[t] \notin {"l_setting", "l_except", "l_except2"}

\* On a machine with both backends, preference "cuda" has fallen back to cpu
\* after a failed CUDA probe, the MPS probe not called.
C13_Witness ==
    \E t \in Threads :
        /\ Resolved(t) /\ frame[t].device_setting = "cuda"
        /\ cuda_available /\ mps_available
        /\ frame[t].resolved_device_str = "cpu" /\ model_device = "cpu"
        /\ frame[t].probes = <<Probe("cuda", FALSE)>>

\* What the probes returned in thread t's call agrees with outcomes cuda, mps.
Observed(t, cuda, mps) ==
    \A i \in 1..Len(frame[t].probes) :
        frame[t].probes[i].passed = IF frame[t].probes[i].probe = "cuda" THEN cuda ELSE mps

\* C14: for a preference that is none of auto, cuda, mps, cpu the resolved
\* device is the one "auto" resolves to under the same probe outcomes.
C14_InvalidLikeAuto ==
    \A t \in Threads :
        (Resolved(t) /\ frame[t].device_setting \notin {"auto", "cuda", "mps", "cpu"}) =>
            /\ \E cuda \in BOOLEAN, mps \in BOOLEAN : Observed(t, cuda, mps)
            /\ \A cuda \in BOOLEAN, mps \in BOOLEAN :
                  Observed(t, cuda, mps) =>
                      frame[t].resolved_device_str = ResolveAuto(cuda, mps).device

\* The invalid preference "gpu0" has resolved to mps after a failed CUDA probe.
C14_Witness ==
    \E t \in Threads :
        /\ Resolved(t) /\ frame[t].device_setting = "gpu0"
        /\ frame[t].resolved_device_str = "mps"
        /\ frame[t].probes = <<Probe("cuda", FALSE), Probe("mps", TRUE)>>

\* Thread t returns from load_model() in this step.
LoadReturns(t) == pc[t] # "done" /\ pc'[t] = "done" /\ ret'[t].op = "load"

\* C15: when the multilingual implementation is unavailable and
\* model.use_multilingual is true, load_model() never takes the multilingual
\* path and instantiates the monolingual variant; when it returns True the
\* variant flag use_multilingual_model is false; and every generation call of
\* synthesize() is made without a language tag.
C15_DegradesToMonolingual ==
    [][(~MULTILINGUAL_AVAILABLE /\ config.use_multilingual) =>
         \A t \in Threads :
            /\ pc'[t] \notin {"l_patch", "l_mtl", "l_mtl_assign", "l_restore"}
            /\ ~frame'[t].built.multilingual
            /\ (LoadReturns(t) /\ ret'[t].ok) => ~use_multilingual_model'
            /\ pc'[t] = "s_generating" => frame'[t].call.language_id = "NoTag"]_vars

\* C16: the map_location wrapper does not leak: whenever no load_model() call
\* is in flight, torch.load is the original function, whether the calls
\* succeeded or failed and however they interleaved.
C16_TorchLoadRestored ==
    (\A t \in Threads : frame[t].op # "load") => torch_load = << >>

\* Thread t takes a step of its synthesize() call that ends at one of labels.
Steps(t, labels) == pc'[t] # pc[t] /\ frame'[t].op = "synth" /\ pc'[t] \in labels

\* C17: in a synthesize() call with seed != 0 on a loaded model, when the
\* generation call starts the call's set_seed() has set torch, random, numpy
\* and the RNG of each available backend (cuda, mps) to exactly that seed and
\* no other value; each seeding statement leaves its subsystem at the seed; and
\* between the last seeding statement and the start of generation the call
\* only selects the calling convention, writing no RNG state and no global.
C17_SeededBeforeGeneration ==
    /\ [](\A t \in Threads :
             (pc[t] = "s_generating" /\ frame[t].seed # 0) =>
                 \A sub \in RngSubsystems :
                     frame[t].seeded[sub] = IF sub \in Seeded THEN frame[t].seed ELSE -1)
    /\ [][\A t \in Threads :
             /\ \A sub \in RngSubsystems :
                   frame'[t].seeded[sub] # frame[t].seeded[sub] /\ frame'[t].op = "synth" =>
                       rng'[sub] = frame'[t].seed
             /\ (Steps(t, {"s_dispatch"}) /\ frame'[t].seed # 0) => pc[t] = "s_seed_numpy"
             /\ Steps(t, {"s_generate"}) => (pc[t] = "s_dispatch" /\ rng' = rng /\ globals' = globals)
             /\ Steps(t, {"s_generating"}) => (pc[t] = "s_generate" /\ rng' = rng /\ globals' = globals)
         ]_vars

\* On a machine with CUDA, a call with seed 2 has started generation from the
\* RNG state its own seeding left: every seeded subsystem at 2, mps untouched.
C17_Witness ==
    \E t \in Threads :
        /\ pc[t] = "s_generating" /\ frame[t].seed = 2 /\ cuda_available
        /\ frame[t].seeded = [sub \in RngSubsystems |-> IF sub = "mps" THEN -1 ELSE 2]
        /\ \A sub \in Seeded : frame[t].call.rng[sub] = 2
        /\ frame[t].call.rng["mps"] # 2

\* C18: a synthesize() call with seed == 0 applies no seeding: from its entry
\* to the start of its generation call none of its steps changes the state of
\* any RNG subsystem, so generation starts from the ambient state (a seed an
\* earlier call applied is neither reset nor applied again).
C18_ZeroSeedLeavesRng ==
    [][\A t \in Threads :
         (Steps(t, {"s_check", "s_dispatch", "s_generate", "s_generating"}) /\ frame'[t].seed = 0) =>
             /\ rng' = rng
             /\ frame'[t].seeded = NoRng
             /\ pc'[t] = "s_generating" => frame'[t].call.rng = rng]_vars

\* A call with seed 0 has started generation from the state an earlier call
\* with seed 1 left behind: seeded with 1 and advanced once by its generation.
C18_Witness ==
    \E t \in Threads :
        /\ pc[t] = "s_generating" /\ frame[t].seed = 0
        /\ frame[t].before.op = "synth" /\ frame[t].before.ok
        /\ frame[t].seeded = NoRng
        /\ \A sub \in Seeded : frame[t].call.rng[sub] = 2 /\ rng[sub] = 2

\* The model is loaded and the handle is of the given variant.
LoadedVariant(multilingual) ==
    MODEL_LOADED /\ chatterbox_model # NoModel /\ chatterbox_model.multilingual = multilingual

\* C19: when the loaded variant is multilingual, every generation call of
\* synthesize() carries a language tag: the caller's language_id when one is
\* given, otherwise the configured generation_defaults.language.
C19_MultilingualCarriesTag ==
    \A t \in Threads :
        (LoadedVariant(TRUE) /\ frame[t].op = "synth" /\ frame[t].generations > 0) =>
            /\ frame[t].call.language_id # "NoTag"
            /\ frame[t].call.language_id =
                  IF frame[t].language_id # "None" THEN frame[t].language_id ELSE config.language

\* With default language "fr" configured, a call without language_id is
\* generating on the multilingual model with the tag "fr".
C19_Witness ==
    \E t \in Threads :
        /\ LoadedVariant(TRUE) /\ pc[t] = "s_generating"
        /\ frame[t].language_id = "None" /\ config.language = "fr"
        /\ frame[t].call.language_id = "fr"
        /\ frame[t].call.model = chatterbox_model.id

\* C20: when the loaded variant is monolingual, a synthesize() call with any
\* language tag makes its generation call, without a language tag, having
\* recorded a warning exactly for a tag other than "en", and returns the outcome
\* of that generation call: the waveform and the sample rate if it succeeded.
C20_MonolingualIgnoresTag ==
    \A t \in Threads :
        LoadedVariant(FALSE) =>
            /\ (frame[t].op = "synth" /\ pc[t] \in {"s_generate", "s_generating", "s_return"}) =>
                  /\ frame[t].call.language_id = "NoTag"
                  /\ frame[t].warned = (frame[t].language_id \notin {"None", "en"})
            /\ (frame[t].op = "synth" /\ pc[t] \in {"s_generating", "s_return"}) =>
                  frame[t].generations = 1
            /\ (pc[t] = "done" /\ ret[t].op = "synth" /\ ret[t].ran) =>
                  /\ ret[t].generations = 1
                  /\ ret[t].ok => (ret[t].wav.language_id = "NoTag" /\ ret[t].sr = S3GEN_SR)
                  /\ ~ret[t].ok => (ret[t].wav = NoWav /\ ret[t].sr = NoSr)

\* A call that asked for a non-English language has returned a waveform
\* generated by the monolingual model without a tag, a warning recorded.
C20_Witness ==
    \E t \in Threads :
        /\ LoadedVariant(FALSE) /\ pc[t] = "done" /\ ret[t].op = "synth"
        /\ ret[t].ok /\ ret[t].warned /\ ret[t].generations = 1
        /\ ret[t].wav.language_id = "NoTag" /\ ret[t].wav.model = chatterbox_model.id
        /\ ret[t].sr = S3GEN_SR

\* Thread t takes a step of a synthesize() call, its return included.
SynthStep(t) ==
    /\ pc'[t] # pc[t]
    /\ frame'[t].op = "synth" \/ (pc'[t] = "done" /\ ret'[t].op = "synth")

\* C21: synthesize() never changes lifecycle state: no step of a synthesize()
\* call, whether its generation succeeds or raises, changes MODEL_LOADED, the
\* model handle, the recorded device or the variant flag.
C21_SynthesizeKeepsLifecycle ==
    [][\A t \in Threads : SynthStep(t) => globals' = globals]_vars

\* A synthesize() call has returned a waveform right after a synthesize() call
\* whose generation raised, the model still loaded.
C21_Witness ==
    \E t \in Threads :
        /\ pc[t] = "done" /\ ret[t].op = "synth" /\ ret[t].ok
        /\ ret[t].before.op = "synth" /\ ret[t].before.ran /\ ~ret[t].before.ok
        /\ MODEL_LOADED /\ ret[t].wav.model = chatterbox_model.id

\* The positions inside synthesize().
SynthLabels ==
    {"s_check", "s_seed_torch", "s_seed_cuda", "s_seed_mps", "s_seed_random", "s_seed_numpy",
     "s_dispatch", "s_generate", "s_generating", "s_return"}

\* C22: the outcome of synthesize() is all-or-nothing: a result has both a
\* waveform and the sample rate or neither; a generation call that raises ends
\* the call with (None, None); a returned waveform is the one the generation
\* call returned; every step of the call stays in the call or returns a result
\* (nothing is raised); and a call makes at most one generation call.
C22_AllOrNothing ==
    /\ [](\A t \in Threads :
             /\ frame[t].generations <= 1
             /\ (pc[t] = "done" /\ ret[t].op = "synth") =>
                   /\ ret[t].wav = NoWav <=> ret[t].sr = NoSr
                   /\ ret[t].wav # NoWav => (ret[t].sr = S3GEN_SR /\ ret[t].generations = 1)
                   /\ ret[t].generations <= 1)
    /\ [][\A t \in Threads :
             /\ (pc[t] \in SynthLabels /\ pc'[t] # pc[t]) =>
                   (pc'[t] \in SynthLabels \/ (pc'[t] = "done" /\ ret'[t].op = "synth"))
             /\ (pc[t] = "s_generating" /\ pc'[t] = "done") =>
                   (ret'[t].wav = NoWav /\ ret'[t].sr = NoSr)
             /\ (pc[t] = "s_return" /\ pc'[t] = "done" /\ ret'[t].sr # NoSr) =>
                   (ret'[t].wav = frame[t].wav_tensor /\ frame[t].wav_tensor = frame[t].call)
         ]_vars

\* A call whose generation call raised has returned (None, None).
C22_Witness ==
    \E t \in Threads :
        /\ pc[t] = "done" /\ ret[t].op = "synth" /\ ret[t].generations = 1
        /\ ret[t].wav = NoWav /\ ret[t].sr = NoSr /\ ~ret[t].ok
        /\ MODEL_LOADED /\ chatterbox_model # NoModel

\* The provider answered r with a well-formed object that has a text and has
\* every numeric field it carries inside the declared bound.
ExtractionSucceeded(r) ==
    /\ r.enabled /\ r.answered /\ r.response # Raised
    /\ r.response.json /\ r.response.text # {}
    /\ WithinDeclaredBounds(r.response)

\* C23: on a successful extraction the call returns a result in which every
\* field the provider populated carries the provider's value and every field
\* the provider left out is absent (None): no default, no zero.
C23_ResultIsProviderFields ==
    (p_pc = "done" /\ ExtractionSucceeded(p_ret)) =>
        /\ p_ret.outcome = "returned"
        /\ \A f \in Fields :
             /\ p_ret.response[f] # {} => p_ret.result[f] = p_ret.response[f]
             /\ p_ret.response[f] = {} => p_ret.result[f] = {}

\* A successful extraction returned the provider's text, a temperature of zero
\* and a language, with the four fields the provider left out absent.
C23_Witness ==
    /\ p_pc = "done" /\ ExtractionSucceeded(p_ret) /\ p_ret.outcome = "returned"
    /\ p_ret.response.temperature = {TemperatureGe} /\ p_ret.result.temperature = {TemperatureGe}
    /\ p_ret.result.text = {"hello world"} /\ p_ret.result.language = {"es"}
    /\ p_ret.response.exaggeration = {} /\ p_ret.result.exaggeration = {}
    /\ p_ret.result.cfg_weight = {} /\ p_ret.result.split_text = {}
    /\ p_ret.result.chunk_size = {}

\* C24: no automatic retry: a preprocess_speech_input() call makes at most one
\* provider call (none when disabled, one when enabled, whatever the provider
\* answers), a synthesize() call makes at most one generation call and a
\* load_model() call makes at most one instantiation attempt.
C24_NoAutomaticRetry ==
    /\ p_frame.provider_calls <= 1
    /\ p_pc = "done" => p_ret.provider_calls = IF p_ret.enabled THEN 1 ELSE 0
    /\ \A t \in Threads :
         /\ frame[t].generations <= 1 /\ frame[t].instantiations <= 1
         /\ pc[t] = "done" => (ret[t].generations <= 1 /\ ret[t].instantiations <= 1)

\* A call whose one provider call raised has, without fallback, raised in turn
\* after that one call.
C24_Witness ==
    /\ p_pc = "done" /\ p_ret.enabled /\ ~p_ret.fallback_on_error
    /\ p_ret.answered /\ p_ret.response = Raised
    /\ p_ret.outcome = "raised" /\ p_ret.provider_calls = 1

\* C25: reproducibility: of two synthesize() calls that returned a waveform,
\* made one at a time on the same model object with the same non-zero seed, the
\* same text and the same language handed to generate(), the later started its
\* generation from the RNG state the earlier started from and returned the
\* same waveform, whatever the RNG state was before either call.
C25_SameSeedSameWaveform ==
    \A t \in Threads :
        ( /\ pc[t] = "done" /\ ret[t].op = "synth" /\ ret[t].ok
          /\ kept # NoKept
          /\ ret[t].seed # 0 /\ ret[t].seed = kept.seed
          /\ ret[t].wav.model = kept.wav.model
          /\ ret[t].wav.text = kept.wav.text
          /\ ret[t].wav.language_id = kept.wav.language_id ) =>
            /\ ret[t].wav.rng = kept.wav.rng
            /\ ret[t].wav = kept.wav

\* Two calls with seed 1 returned the same waveform on a platform without
\* CUDA, the second starting after the first had advanced every generator.
C25_Witness ==
    \E t \in Threads :
        /\ pc[t] = "done" /\ ret[t].op = "synth" /\ ret[t].ok
        /\ ret[t].seed = 1 /\ kept.seed = 1 /\ ret[t].wav = kept.wav
        /\ ~cuda_available
        /\ rng = Advance(kept.wav.rng)
        /\ kept.wav.rng["torch"] = 1 /\ kept.wav.rng["cuda"] = RngMod - 1

\* C26: in every load whose resolved device is not cuda, the object of either
\* variant is instantiated with torch.load remapped to the resolved device
\* (map_location = the resolved device when the caller passes none).
C26_RemappedForBothVariants ==
    \A t \in Threads :
        (frame[t].op = "load" /\ frame[t].built # NoModel /\ frame[t].built.device # "cuda") =>
            frame[t].built.map_location = frame[t].built.device

\* C27: the recorded device and the variant flag change only when a load
\* succeeds: after a failed load_model() call they are what they were before
\* the call, for the first call ever made the values engine.py starts with.
C27_FailedLoadKeepsDeviceAndVariant ==
    \A t \in Threads :
        (pc[t] = "done" /\ ret[t].op = "load" /\ ~ret[t].ok /\ ret[t].before = NoLast) =>
            (model_device = "None" /\ use_multilingual_model = TRUE)

\* C28: once a load_model() call has completed, the lifecycle state is loaded
\* or load-failed, and load-failed differs observably from the state in which
\* no load was ever attempted.
C28_AttemptedNeverLooksUnloaded ==
    \A t \in Threads :
        (pc[t] = "done" /\ ret[t].op = "load") =>
            \/ MODEL_LOADED /\ chatterbox_model # NoModel
            \/ globals # <<NoModel, FALSE, "None", TRUE>>

\* C29: the launcher never exits leaving the server it started without having
\* invoked cleanup_server(): whenever main() has exited after launch_server()
\* returned, cleanup_server() was invoked, and whenever cleanup_server() has
\* found the process alive it has sent terminate, and kill only after that.
C29_CleanupBeforeExit ==
    /\ (m_pc = "exited" /\ server_process = "Popen") => cleanups >= 1
    /\ signals \in {<< >>, <<"terminate">>, <<"terminate", "kill">>}

====
